---- MODULE Spec2Model ----
(***************************************************************************)
(* Model of the neon-cube puzzle core: the 27 cubelets of Cube3D.tsx, the  *)
(* slice rotation (rotateSlice) with its animation frames, the pointer     *)
(* gesture handlers, the scramble effect, the solved check, and the game   *)
(* state machine of App.tsx (Start / Retry / Reset / start timer).         *)
(*                                                                         *)
(* React state is modelled as React keeps it: the hook state (gameState,   *)
(* isScrambling, isAnimating) changes when a setter is called, and the     *)
(* handlers of the component read the values of the last render            *)
(* ("rendered").  A move in flight keeps the closure of the render in      *)
(* which it was started.                                                   *)
(***************************************************************************)
EXTENDS Integers, Sequences, FiniteSets, TLC

(***************************************************************************)
(* Bounds of the model (not program constants).                            *)
(***************************************************************************)
MaxGestures == 3
MaxStarts == 2
ScrambleChoices == 1
NumHits == 1
AlgDepth == 1
AlgSteps == 4
UndoPattern == 2
UndoChoices == 6
GestureRounds == 1
PartGestures == 1

(***************************************************************************)
(* Program constants.                                                      *)
(***************************************************************************)
NumCubelets == 27
ScrambleLen == 20
ThresholdSq == 4
\* durations in ticks of 100 ms: rotateSlice's default 300, the scramble's 100,
\* and the 2000 of the timeout of startSequence
GestureDuration == 3
ScrambleDuration == 1
StartDelay == 20

(***************************************************************************)
(* Vectors, axes and quarter-turn rotations.                               *)
(***************************************************************************)
Axes == <<"x", "y", "z">>
AxisSet == {"x", "y", "z"}
AxisIndex(axis) == IF axis = "x" THEN 1 ELSE IF axis = "y" THEN 2 ELSE 3
Coords == {-1, 0, 1}
Lattice == {<<x, y, z>> : x \in Coords, y \in Coords, z \in Coords}
Ids == 0 .. (NumCubelets - 1)
Dirs == {1, -1}

\* id counts up in the loop order x (outer), y, z (inner)
InitialPos(id) == <<(id \div 9) - 1, ((id \div 3) % 3) - 1, (id % 3) - 1>>

Sign(n) == IF n > 0 THEN 1 ELSE IF n < 0 THEN -1 ELSE 0
Abs(n) == IF n < 0 THEN -n ELSE n
Max3(a, b, c) == IF a >= b /\ a >= c THEN a ELSE IF b >= c THEN b ELSE c

\* Math.round on a value that is already an integer
round(v) == v

\* rotation by +90 degrees (right-handed) about a principal axis
Rot90(axis, v) ==
    IF axis = "x" THEN <<v[1], -v[3], v[2]>>
    ELSE IF axis = "y" THEN <<v[3], v[2], -v[1]>>
    ELSE <<-v[2], v[1], v[3]>>

\* rotation by -90 degrees about a principal axis
RotMinus90Bad(axis, v) ==
    IF axis = "x" THEN <<v[1], v[3], -v[2]>>
    ELSE IF axis = "y" THEN <<v[3], v[2], -v[1]>>
    ELSE <<v[2], -v[1], v[3]>>
RotMinus90(axis, v) ==
    IF axis = "x" THEN <<v[1], v[3], -v[2]>>
    ELSE IF axis = "y" THEN <<-v[3], v[2], v[1]>>
    ELSE <<v[2], -v[1], v[3]>>

\* rotation by q quarter-turns, q in -1 .. 1 (THREE's rotation.x/y/z = q * PI/2)
RotQuarterBad(axis, q, v) ==
    IF q = 0 THEN v ELSE Rot90(axis, v)
RotQuarter(axis, q, v) ==
    IF q = 0 THEN v
    ELSE IF q = 1 THEN Rot90(axis, v)
    ELSE RotMinus90(axis, v)

\* An orientation (the mesh quaternion) is kept as the images of the three
\* basis vectors under it.
Identity == <<<<1, 0, 0>>, <<0, 1, 0>>, <<0, 0, 1>>>>
applyQuaternion(q, v) ==
    <<v[1] * q[1][1] + v[2] * q[2][1] + v[3] * q[3][1],
      v[1] * q[1][2] + v[2] * q[2][2] + v[3] * q[3][2],
      v[1] * q[1][3] + v[2] * q[2][3] + v[3] * q[3][3]>>

\* The pivot's Euler rotation (order XYZ: the matrix is Rx * Ry * Rz) applied
\* to a vector.  pivot is <<qx, qy, qz, partway>>: the three angles to the
\* nearest quarter-turn, and the set of axes whose angle was last written by a
\* frame with 0 < progress < 1, so is strictly between two quarter-turns.
PivotApply(pivot, v) ==
    RotQuarter("x", pivot[1], RotQuarter("y", pivot[2], RotQuarter("z", pivot[3], v)))
PivotApplyQ(pivot, q) ==
    <<PivotApply(pivot, q[1]), PivotApply(pivot, q[2]), PivotApply(pivot, q[3])>>

\* targetRot = (PI / 2) * direction * -1, in quarter-turns
targetRotBad(direction) == -1
targetRot(direction) == direction * (-1)

(***************************************************************************)
(* Moves.                                                                  *)
(***************************************************************************)
Slices == <<-1, 0, 1>>
Move(axis, slice, direction) == [axis |-> axis, slice |-> slice, direction |-> direction]
AllMoves == {Move(a, s, d) : a \in AxisSet, s \in Coords, d \in Dirs}
Inverse(m) == [m EXCEPT !.direction = -m.direction]

\* The 18 moves in axis-major order: x/-1/+1, x/-1/-1, x/0/+1, ...
AxisMajor(k) ==
    Move(Axes[(((k - 1) \div 6) % 3) + 1], Slices[(((k - 1) \div 2) % 3) + 1],
         IF (k - 1) % 2 = 0 THEN 1 ELSE -1)
\* The 18 moves with the axis changing fastest: x/-1/+1, y/-1/+1, z/-1/+1, x/-1/-1, ...
AxisMinor(k) ==
    Move(Axes[((k - 1) % 3) + 1], Slices[(((k - 1) \div 6) % 3) + 1],
         IF ((k - 1) \div 3) % 2 = 0 THEN 1 ELSE -1)

(***************************************************************************)
(* The store and the scene graph.                                          *)
(*   cur    : id -> currentPos                                             *)
(*   meshes : id -> [parent, position, quaternion] (cubieRefs.current[id]) *)
(*   pivot  : pivotRef.current.rotation, in quarter-turns                  *)
(***************************************************************************)
initialCubelets == [id \in Ids |-> InitialPos(id)]
initialMeshes ==
    [id \in Ids |-> [parent |-> "group", position |-> InitialPos(id),
                     quaternion |-> Identity, skew |-> FALSE]]
ZeroPivot == <<0, 0, 0, {}>>

\* cubelets.filter(c => round(c.currentPos[axis]) === sliceIndex)
activeCubiesBad(cur, axis, sliceIndex) ==
    {c \in Ids : round(cur[c][1]) = sliceIndex}
activeCubiesAtLeast(cur, axis, sliceIndex) ==
    {c \in Ids : round(cur[c][AxisIndex(axis)]) >= sliceIndex}
activeCubies(cur, axis, sliceIndex) ==
    {c \in Ids : round(cur[c][AxisIndex(axis)]) = sliceIndex}

\* pivotRef.current.attach(mesh), called with the pivot at the identity
AttachToPivot(ms, active) ==
    [c \in Ids |-> IF c \in active THEN [ms[c] EXCEPT !.parent = "pivot"] ELSE ms[c]]

SetAxis(pivot, axis, q) == [pivot EXCEPT ![AxisIndex(axis)] = q]

\* groupRef.current.attach(mesh), then the rounding of mesh.position; the
\* quaternion is not rounded, so it keeps a partway angle of the pivot (skew)
DetachMesh(m, pivot) ==
    IF m.parent = "pivot"
    THEN LET world == PivotApply(pivot, m.position) IN
         [parent |-> "group",
          position |-> <<round(world[1]), round(world[2]), round(world[3])>>,
          quaternion |-> PivotApplyQ(pivot, m.quaternion),
          skew |-> m.skew \/ pivot[4] # {}]
    ELSE m
DetachAll(ms, active, pivot) ==
    [c \in Ids |-> IF c \in active THEN DetachMesh(ms[c], pivot) ELSE ms[c]]

\* A pivot angle strictly between 0 and a quarter-turn (an axis of pivot[4]):
\* what Math.round leaves of a lattice vector turned by it.  With u, v the
\* coordinates in the plane of the turn and s the sense of the turn, the vector
\* (u cos - s v sin, s u sin + v cos) rounds to the vector at the nearer
\* quarter-turn for small or large angles, and to MidTurn around 45 degrees; a
\* vector with u and v both non-zero changes over at 24.3 and 65.7 degrees, one
\* with a single non-zero coordinate at 30 and 60 degrees.
\* phase 0: every vector rounds to the nearer quarter-turn; phase 1: only the
\* vectors with u and v non-zero round to MidTurn; phase 2: every vector does.
MidTurn(axis, s, v) ==
    IF axis = "x" THEN <<v[1], Sign(v[2] - s * v[3]), Sign(s * v[2] + v[3])>>
    ELSE IF axis = "y" THEN <<Sign(s * v[3] + v[1]), v[2], Sign(v[3] - s * v[1])>>
    ELSE <<Sign(v[1] - s * v[2]), Sign(s * v[1] + v[2]), v[3]>>
IsDiagonal(axis, v) ==
    \A i \in {1, 2, 3} \ {AxisIndex(axis)} : v[i] # 0
PartTurn(axis, pivot, sense, phase, v) ==
    IF /\ axis \in pivot[4]
       /\ phase = 2 \/ (phase = 1 /\ IsDiagonal(axis, v))
    THEN MidTurn(axis, sense[AxisIndex(axis)], v)
    ELSE RotQuarter(axis, pivot[AxisIndex(axis)], v)
\* the pivot's rotation (Rx * Ry * Rz) applied to a position, then rounded
PivotApplyRounded(pivot, sense, phase, v) ==
    PartTurn("x", pivot, sense, phase,
             PartTurn("y", pivot, sense, phase,
                      PartTurn("z", pivot, sense, phase, v)))
DetachMeshPart(m, pivot, sense, phase) ==
    IF m.parent = "pivot"
    THEN [parent |-> "group",
          position |-> PivotApplyRounded(pivot, sense, phase, m.position),
          quaternion |-> PivotApplyQ(pivot, m.quaternion),
          skew |-> m.skew \/ pivot[4] # {}]
    ELSE m
DetachAllPart(ms, active, pivot, sense, phase) ==
    [c \in Ids |-> IF c \in active
                   THEN DetachMeshPart(ms[c], pivot, sense, phase)
                   ELSE ms[c]]

\* c.currentPos = [mesh.position.x, mesh.position.y, mesh.position.z]
UpdateLogical(cur, ms, active) ==
    [c \in Ids |-> IF c \in active THEN ms[c].position ELSE cur[c]]

\* The value of `solved` at the end of the loop of checkSolved.
Up == <<0, 1, 0>>
FrontBad == <<0, 0, -1>>
Front == <<0, 0, 1>>
cubieSolvedBad(cur, ms, c) ==
    /\ round(cur[c][1]) = InitialPos(c)[1]
    /\ round(cur[c][2]) = InitialPos(c)[2]
    /\ round(cur[c][3]) = InitialPos(c)[3]
    /\ applyQuaternion(ms[c].quaternion, Up)[2] = 1
cubieSolved(cur, ms, c) ==
    /\ round(cur[c][1]) = InitialPos(c)[1]
    /\ round(cur[c][2]) = InitialPos(c)[2]
    /\ round(cur[c][3]) = InitialPos(c)[3]
    /\ applyQuaternion(ms[c].quaternion, Up)[2] = 1
    /\ applyQuaternion(ms[c].quaternion, Front)[3] = 1
solvedFlag(cur, ms) == \A c \in Ids : cubieSolved(cur, ms, c)

(***************************************************************************)
(* Gesture resolution (handlePointerDown / handlePointerMove).  Points and *)
(* drag vectors are in units of 1/8 world unit, so the threshold 0.25 is a *)
(* squared length of ThresholdSq.                                          *)
(***************************************************************************)
Vsub(a, b) == <<a[1] - b[1], a[2] - b[2], a[3] - b[3]>>
Vadd(a, b) == <<a[1] + b[1], a[2] + b[2], a[3] + b[3]>>
LengthSq(v) == v[1] * v[1] + v[2] * v[2] + v[3] * v[3]

\* the snap of the world normal to the nearest principal direction
SnapNormal(n) ==
    LET maxComp == Max3(Abs(n[1]), Abs(n[2]), Abs(n[3])) IN
    IF Abs(n[1]) = maxComp THEN <<Sign(n[1]), 0, 0>>
    ELSE IF Abs(n[2]) = maxComp THEN <<0, Sign(n[2]), 0>>
    ELSE <<0, 0, Sign(n[3])>>

\* axis, slice and direction of the move a drag past the threshold resolves to;
\* normal is the snapped normal, so |normal.x| > 0.5 is normal[1] # 0
ResolveMoveSwapped(normal, moveVector, currentPos) ==
    LET absX == Abs(moveVector[1])
        absY == Abs(moveVector[2])
        absZ == Abs(moveVector[3])
    IN  IF Abs(normal[1]) > 0
        THEN IF absY > absZ
             THEN Move("y", round(currentPos[2]),
                       IF moveVector[2] * normal[1] > 0 THEN -1 ELSE 1)
             ELSE Move("y", round(currentPos[2]),
                       IF moveVector[3] * normal[1] > 0 THEN 1 ELSE -1)
        ELSE IF Abs(normal[2]) > 0
        THEN IF absX > absZ
             THEN Move("z", round(currentPos[3]),
                       IF moveVector[1] * normal[2] > 0 THEN 1 ELSE -1)
             ELSE Move("x", round(currentPos[1]),
                       IF moveVector[3] * normal[2] > 0 THEN -1 ELSE 1)
        ELSE IF absX > absY
             THEN Move("y", round(currentPos[2]),
                       IF moveVector[1] * normal[3] > 0 THEN -1 ELSE 1)
             ELSE Move("x", round(currentPos[1]),
                       IF moveVector[2] * normal[3] > 0 THEN 1 ELSE -1)
ResolveMoveWrongSlice(normal, moveVector, currentPos) ==
    LET absX == Abs(moveVector[1])
        absY == Abs(moveVector[2])
        absZ == Abs(moveVector[3])
    IN  IF Abs(normal[1]) > 0
        THEN IF absY > absZ
             THEN Move("z", round(currentPos[3]),
                       IF moveVector[2] * normal[1] > 0 THEN -1 ELSE 1)
             ELSE Move("y", round(currentPos[2]),
                       IF moveVector[3] * normal[1] > 0 THEN 1 ELSE -1)
        ELSE IF Abs(normal[2]) > 0
        THEN IF absX > absZ
             THEN Move("z", round(currentPos[3]),
                       IF moveVector[1] * normal[2] > 0 THEN 1 ELSE -1)
             ELSE Move("x", round(currentPos[1]),
                       IF moveVector[3] * normal[2] > 0 THEN -1 ELSE 1)
        ELSE IF absX > absY
             THEN Move("y", round(currentPos[1]),
                       IF moveVector[1] * normal[3] > 0 THEN -1 ELSE 1)
             ELSE Move("x", round(currentPos[1]),
                       IF moveVector[2] * normal[3] > 0 THEN 1 ELSE -1)
ResolveMoveNoMirror(normal, moveVector, currentPos) ==
    LET absX == Abs(moveVector[1])
        absY == Abs(moveVector[2])
        absZ == Abs(moveVector[3])
    IN  IF Abs(normal[1]) > 0
        THEN IF absY > absZ
             THEN Move("z", round(currentPos[3]),
                       IF moveVector[2] > 0 THEN -1 ELSE 1)
             ELSE Move("y", round(currentPos[2]),
                       IF moveVector[3] * normal[1] > 0 THEN 1 ELSE -1)
        ELSE IF Abs(normal[2]) > 0
        THEN IF absX > absZ
             THEN Move("z", round(currentPos[3]),
                       IF moveVector[1] * normal[2] > 0 THEN 1 ELSE -1)
             ELSE Move("x", round(currentPos[1]),
                       IF moveVector[3] * normal[2] > 0 THEN -1 ELSE 1)
        ELSE IF absX > absY
             THEN Move("y", round(currentPos[2]),
                       IF moveVector[1] * normal[3] > 0 THEN -1 ELSE 1)
             ELSE Move("x", round(currentPos[1]),
                       IF moveVector[2] * normal[3] > 0 THEN 1 ELSE -1)
ResolveMoveReversed(normal, moveVector, currentPos) ==
    LET absX == Abs(moveVector[1])
        absY == Abs(moveVector[2])
        absZ == Abs(moveVector[3])
    IN  IF Abs(normal[1]) > 0
        THEN IF absY > absZ
             THEN Move("z", round(currentPos[3]),
                       IF moveVector[2] * normal[1] > 0 THEN -1 ELSE 1)
             ELSE Move("y", round(currentPos[2]),
                       IF moveVector[3] * normal[1] > 0 THEN 1 ELSE -1)
        ELSE IF Abs(normal[2]) > 0
        THEN IF absX > absZ
             THEN Move("z", round(currentPos[3]),
                       IF moveVector[1] * normal[2] > 0 THEN 1 ELSE -1)
             ELSE Move("x", round(currentPos[1]),
                       IF moveVector[3] * normal[2] > 0 THEN 1 ELSE -1)
        ELSE IF absX > absY
             THEN Move("y", round(currentPos[2]),
                       IF moveVector[1] * normal[3] > 0 THEN -1 ELSE 1)
             ELSE Move("x", round(currentPos[1]),
                       IF moveVector[2] * normal[3] > 0 THEN 1 ELSE -1)
ResolveMove(normal, moveVector, currentPos) ==
    LET absX == Abs(moveVector[1])
        absY == Abs(moveVector[2])
        absZ == Abs(moveVector[3])
    IN  IF Abs(normal[1]) > 0
        THEN IF absY > absZ
             THEN Move("z", round(currentPos[3]),
                       IF moveVector[2] * normal[1] > 0 THEN -1 ELSE 1)
             ELSE Move("y", round(currentPos[2]),
                       IF moveVector[3] * normal[1] > 0 THEN 1 ELSE -1)
        ELSE IF Abs(normal[2]) > 0
        THEN IF absX > absZ
             THEN Move("z", round(currentPos[3]),
                       IF moveVector[1] * normal[2] > 0 THEN 1 ELSE -1)
             ELSE Move("x", round(currentPos[1]),
                       IF moveVector[3] * normal[2] > 0 THEN -1 ELSE 1)
        ELSE IF absX > absY
             THEN Move("y", round(currentPos[2]),
                       IF moveVector[1] * normal[3] > 0 THEN -1 ELSE 1)
             ELSE Move("x", round(currentPos[1]),
                       IF moveVector[2] * normal[3] > 0 THEN 1 ELSE -1)

\* Pointer inputs: the pressed mesh (its index in cubieRefs), the world normal of
\* the hit face before snapping, and the hit point.
HitList ==
    <<[id |-> 26, normal |-> <<10, 1, 0>>, point |-> <<12, 8, 8>>],
      [id |-> 26, normal |-> <<-1, 10, 1>>, point |-> <<8, 12, 8>>],
      [id |-> 0, normal |-> <<0, 1, -10>>, point |-> <<-8, -8, -12>>],
      [id |-> 13, normal |-> <<-10, 0, 0>>, point |-> <<-12, 0, 0>>]>>
Hits == {HitList[k] : k \in 1 .. NumHits}
Deltas == {<<0, 1, 0>>, <<0, 2, 0>>, <<0, 3, 1>>, <<0, -3, 1>>}
EventPoints == {Vadd(h.point, d) : h \in Hits, d \in Deltas}

(***************************************************************************)
(* State.                                                                  *)
(***************************************************************************)
VARIABLES
    cubelets,       \* id -> currentPos (the logical state)
    meshes,         \* id -> the mesh of the cubelet
    pivot,          \* the pivot's rotation
    anims,          \* the moves in flight, in the order they were started
    started,        \* how many moves rotateSlice has started
    completed,      \* the moves (by number) whose last frame has run
    gameState,      \* App: useState gameState
    isScrambling,   \* App: useState isScrambling
    isAnimating,    \* Cube3D: useState isAnimating
    rendered,       \* the state values of the last render (what handlers read)
    interactRef,    \* Cube3D: interactRef.current
    timers,         \* pending timeouts of startSequence: ticks left of each
    solvedEvents,   \* how many times handleSolve recorded a solve
    gestures,       \* moves started by gestures so far
    starts,         \* start sequences so far
    alg,            \* bookkeeping of the move-algebra specifications
    missed          \* history of the gesture specification: the latest
                    \* pointer-down hit no face

vars == <<cubelets, meshes, pivot, anims, started, completed, gameState, isScrambling, isAnimating,
          rendered, interactRef, timers, solvedEvents, gestures, starts, alg, missed>>

GameStates == {"IDLE", "PLAYING", "SOLVED"}

World == [cubelets |-> cubelets, meshes |-> meshes, pivot |-> pivot,
          anims |-> anims, started |-> started, completed |-> completed,
          isAnimating |-> isAnimating]

\* rotateSlice up to the first call of animate(): the busy flag is set, the
\* slice is selected from the logical positions, the pivot is reset and the
\* slice attached to it; animate() sets the angle 0 and asks for a frame.
\* closure is the gameState of the render that created this rotateSlice;
\* step is 0 for a gesture and i + 1 for the scramble loop's i.
rotateSliceNoReset(w, m, duration, closure, step) ==
    LET active == activeCubies(w.cubelets, m.axis, m.slice) IN
    [cubelets |-> w.cubelets,
     meshes |-> AttachToPivot(w.meshes, active),
     pivot |-> w.pivot,
     anims |-> Append(w.anims,
                 [axis |-> m.axis, sliceIndex |-> m.slice, direction |-> m.direction,
                  active |-> active, remaining |-> duration, ease |-> 0,
                  closure |-> closure, step |-> step, id |-> w.started + 1]),
     started |-> w.started + 1,
     completed |-> w.completed,
     isAnimating |-> TRUE]
rotateSliceCancel(w, m, duration, closure, step) ==
    LET active == activeCubies(w.cubelets, m.axis, m.slice) IN
    [cubelets |-> w.cubelets,
     meshes |-> AttachToPivot(w.meshes, active),
     pivot |-> SetAxis(ZeroPivot, m.axis, 0),
     anims |-> <<[axis |-> m.axis, sliceIndex |-> m.slice, direction |-> m.direction,
                  active |-> active, remaining |-> duration, ease |-> 0,
                  closure |-> closure, step |-> step, id |-> w.started + 1]>>,
     started |-> w.started + 1,
     completed |-> w.completed,
     isAnimating |-> TRUE]
rotateSlice(w, m, duration, closure, step) ==
    LET active == activeCubies(w.cubelets, m.axis, m.slice) IN
    [cubelets |-> w.cubelets,
     meshes |-> AttachToPivot(w.meshes, active),
     pivot |-> SetAxis(ZeroPivot, m.axis, 0),
     anims |-> Append(w.anims,
                 [axis |-> m.axis, sliceIndex |-> m.slice, direction |-> m.direction,
                  active |-> active, remaining |-> duration, ease |-> 0,
                  closure |-> closure, step |-> step, id |-> w.started + 1]),
     started |-> w.started + 1,
     completed |-> w.completed,
     isAnimating |-> TRUE]

RemoveAt(seq, k) == SubSeq(seq, 1, k - 1) \o SubSeq(seq, k + 1, Len(seq))

\* The last frame of animate() for the k-th move in flight, up to
\* setIsAnimating(false): the pivot takes the target angle, the slice is
\* detached with rounded positions, and the logical positions are updated.
finishMove(w, k) ==
    LET a == w.anims[k]
        pv == [SetAxis(w.pivot, a.axis, targetRot(a.direction))
                  EXCEPT ![4] = @ \ {a.axis}]
        ms == DetachAll(w.meshes, a.active, pv)
    IN  [cubelets |-> UpdateLogical(w.cubelets, ms, a.active),
         meshes |-> ms,
         pivot |-> pv,
         anims |-> RemoveAt(w.anims, k),
         started |-> w.started,
         completed |-> w.completed \cup {a.id},
         isAnimating |-> FALSE]

\* the sense of the turn of the move in flight that writes the angle of an axis
TurnSense(as) ==
    [i \in 1 .. 3 |->
        LET on == {j \in 1 .. Len(as) : AxisIndex(as[j].axis) = i} IN
        IF on = {} THEN 1
        ELSE targetRot(as[CHOOSE j \in on : \A l \in on : l <= j].direction)]
\* The last frame of the k-th move while another move's angle is partway: the
\* slice is detached with positions rounded from the partway rotation.
finishMovePart(w, k, phase) ==
    LET a == w.anims[k]
        pv == [SetAxis(w.pivot, a.axis, targetRot(a.direction))
                  EXCEPT ![4] = @ \ {a.axis}]
        ms == DetachAllPart(w.meshes, a.active, pv, TurnSense(w.anims), phase)
    IN  [cubelets |-> UpdateLogical(w.cubelets, ms, a.active),
         meshes |-> ms,
         pivot |-> pv,
         anims |-> RemoveAt(w.anims, k),
         started |-> w.started,
         completed |-> w.completed \cup {a.id},
         isAnimating |-> FALSE]
\* the worlds the last frame of the k-th move can leave
finishOutcomes(w, k) ==
    {finishMove(w, k)} \cup
    {finishMovePart(w, k, phase) :
        phase \in (IF w.pivot[4] \ {w.anims[k].axis} = {} THEN {} ELSE {1, 2})}

\* checkSolved() of the closure, then handleSolve() of the same render:
\* TRUE when handleSolve records the solve.
solveFiresNoGuard(closure, w) == solvedFlag(w.cubelets, w.meshes)
solveFires(closure, w) == closure = "PLAYING" /\ solvedFlag(w.cubelets, w.meshes)

\* the moves Math.random() can pick in runScramble
ScrambleMoves == {AxisMajor(k) : k \in 1 .. ScrambleChoices}

(***************************************************************************)
(* Initial state: the first render of App and Cube3D.                      *)
(***************************************************************************)
NoAlg == [mode |-> "app", base |-> <<>>, seq |-> <<>>, i |-> 0]

Init ==
    /\ cubelets = initialCubelets
    /\ meshes = initialMeshes
    /\ pivot = ZeroPivot
    /\ anims = <<>>
    /\ started = 0
    /\ completed = {}
    /\ gameState = "IDLE"
    /\ isScrambling = FALSE
    /\ isAnimating = FALSE
    /\ rendered = [gameState |-> "IDLE", scramble |-> FALSE, isAnimating |-> FALSE]
    /\ interactRef = [startFaceNormal |-> <<0, 0, 0>>, startPoint |-> <<0, 0, 0>>,
                      intersectedCubieId |-> -1, isDragging |-> FALSE]
    /\ timers = <<>>
    /\ solvedEvents = 0
    /\ gestures = 0
    /\ starts = 0
    /\ alg = NoAlg
    /\ missed = FALSE

SetWorld(w) ==
    /\ cubelets' = w.cubelets
    /\ meshes' = w.meshes
    /\ pivot' = w.pivot
    /\ anims' = w.anims
    /\ started' = w.started
    /\ completed' = w.completed
    /\ isAnimating' = w.isAnimating

(***************************************************************************)
(* Animation frames.                                                       *)
(***************************************************************************)
\* A frame of animate() with progress < 1: only the pivot's angle changes.  The
\* eased angle is kept to the nearer of 0 and the target, and never decreases.
AnimateFrame(k) ==
    /\ k \in 1 .. Len(anims)
    /\ anims[k].remaining > 0
    /\ \E e \in {anims[k].ease, 1} :
          /\ anims' = [anims EXCEPT ![k].ease = e]
          /\ pivot' = [SetAxis(pivot, anims[k].axis, targetRot(anims[k].direction) * e)
                          EXCEPT ![4] = @ \cup {anims[k].axis}]
    /\ UNCHANGED <<cubelets, meshes, started, completed, gameState, isScrambling,
                   isAnimating, rendered,
                   interactRef, timers, solvedEvents, gestures,
                   starts, alg, missed>>

\* progress >= 1: the duration has elapsed; a frame runs the callbacks in the
\* order of registration, so a move started earlier finishes first.
MayFinish(k) ==
    /\ anims[k].remaining = 0
    /\ \A j \in 1 .. (k - 1) : anims[j].remaining > 0

\* the scramble loop with one iteration too many
FinishFrameOneMore(k) ==
    /\ k \in 1 .. Len(anims)
    /\ MayFinish(k)
    /\ LET a == anims[k]
           w1 == finishMove(World, k)
           fires == solveFires(a.closure, w1)
       IN  /\ \E w2 \in (IF a.step \in 1 .. ScrambleLen
                         THEN {rotateSlice(w1, m, ScrambleDuration, a.closure, a.step + 1) :
                                  m \in ScrambleMoves}
                         ELSE {w1}) : SetWorld(w2)
           /\ gameState' = IF fires THEN "SOLVED" ELSE gameState
           /\ solvedEvents' = IF fires THEN solvedEvents + 1 ELSE solvedEvents
    /\ UNCHANGED <<isScrambling, rendered, interactRef, timers, gestures, starts, alg, missed>>
\* The frame of animate() with progress >= 1: the commit, setIsAnimating(false),
\* checkSolved(), resolve(); the scramble loop awaiting the promise goes on with
\* its next rotateSlice in the same task.
FinishFrame(k) ==
    /\ k \in 1 .. Len(anims)
    /\ MayFinish(k)
    /\ LET a == anims[k]
           w1 == finishMove(World, k)
           fires == solveFires(a.closure, w1)
       IN  /\ \E w2 \in (IF a.step \in 1 .. (ScrambleLen - 1)
                         THEN {rotateSlice(w1, m, ScrambleDuration, a.closure, a.step + 1) :
                                  m \in ScrambleMoves}
                         ELSE {w1}) : SetWorld(w2)
           /\ gameState' = IF fires THEN "SOLVED" ELSE gameState
           /\ solvedEvents' = IF fires THEN solvedEvents + 1 ELSE solvedEvents
    /\ UNCHANGED <<isScrambling, rendered, interactRef, timers, gestures, starts, alg, missed>>

\* The same frame with every rounding of the detached positions that a
\* partway angle of another move in flight can give (FinishFrame keeps the
\* positions at the nearer quarter-turn).
FinishFramePart(k) ==
    /\ k \in 1 .. Len(anims)
    /\ MayFinish(k)
    /\ \E w1 \in finishOutcomes(World, k) :
       LET a == anims[k]
           fires == solveFires(a.closure, w1)
       IN  /\ \E w2 \in (IF a.step \in 1 .. (ScrambleLen - 1)
                         THEN {rotateSlice(w1, m, ScrambleDuration, a.closure, a.step + 1) :
                                  m \in ScrambleMoves}
                         ELSE {w1}) : SetWorld(w2)
           /\ gameState' = IF fires THEN "SOLVED" ELSE gameState
           /\ solvedEvents' = IF fires THEN solvedEvents + 1 ELSE solvedEvents
    /\ UNCHANGED <<isScrambling, rendered, interactRef, timers, gestures, starts, alg, missed>>

(***************************************************************************)
(* Pointer handlers of the cubelet meshes.                                 *)
(***************************************************************************)
handlePointerDown(face, h) ==
    /\ IF rendered.gameState # "PLAYING" \/ rendered.isAnimating
       THEN UNCHANGED interactRef
       ELSE IF face
            THEN interactRef' = [startFaceNormal |-> SnapNormal(h.normal),
                                 startPoint |-> h.point,
                                 intersectedCubieId |-> h.id,
                                 isDragging |-> TRUE]
            ELSE UNCHANGED interactRef
    /\ UNCHANGED <<cubelets, meshes, pivot, anims, started, completed, gameState,
                   isScrambling,
                   isAnimating, rendered, timers, solvedEvents,
                   gestures, starts, alg>>

handlePointerUp ==
    /\ IF ~interactRef.isDragging
       THEN UNCHANGED interactRef
       ELSE interactRef' = [interactRef EXCEPT !.isDragging = FALSE]
    /\ UNCHANGED <<cubelets, meshes, pivot, anims, started, completed, gameState,
                   isScrambling,
                   isAnimating, rendered, timers, solvedEvents,
                   gestures, starts, alg, missed>>

\* TRUE when the drag update passes the guards and the threshold
TriggersBad(point) ==
    /\ interactRef.isDragging
    /\ ~rendered.isAnimating
    /\ interactRef.intersectedCubieId # -1
Triggers(point) ==
    /\ interactRef.isDragging
    /\ ~rendered.isAnimating
    /\ interactRef.intersectedCubieId # -1
    /\ LengthSq(Vsub(point, interactRef.startPoint)) >= ThresholdSq

handlePointerMoveNoLatch(point) ==
    /\ Triggers(point) => gestures < MaxGestures
    /\ IF Triggers(point)
       THEN /\ UNCHANGED interactRef
            /\ \E w \in {rotateSlice(World,
                          ResolveMove(interactRef.startFaceNormal,
                                      Vsub(point, interactRef.startPoint),
                                      cubelets[interactRef.intersectedCubieId]),
                          GestureDuration, rendered.gameState, 0)} : SetWorld(w)
            /\ gestures' = gestures + 1
       ELSE UNCHANGED <<interactRef, cubelets, meshes, pivot, anims, started,
                        completed, isAnimating,
                        gestures>>
    /\ UNCHANGED <<gameState, isScrambling, rendered, timers, solvedEvents, starts, alg, missed>>

handlePointerMoveHome(point) ==
    /\ Triggers(point) => gestures < MaxGestures
    /\ IF Triggers(point)
       THEN /\ interactRef' = [interactRef EXCEPT !.isDragging = FALSE]
            /\ \E w \in {rotateSlice(World,
                          ResolveMove(interactRef.startFaceNormal,
                                      Vsub(point, interactRef.startPoint),
                                      InitialPos(interactRef.intersectedCubieId)),
                          GestureDuration, rendered.gameState, 0)} : SetWorld(w)
            /\ gestures' = gestures + 1
       ELSE UNCHANGED <<interactRef, cubelets, meshes, pivot, anims, started,
                        completed, isAnimating,
                        gestures>>
    /\ UNCHANGED <<gameState, isScrambling, rendered, timers, solvedEvents, starts, alg, missed>>
handlePointerMove(point) ==
    /\ Triggers(point) => gestures < MaxGestures
    /\ IF Triggers(point)
       THEN /\ interactRef' = [interactRef EXCEPT !.isDragging = FALSE]
            /\ \E w \in {rotateSlice(World,
                          ResolveMove(interactRef.startFaceNormal,
                                      Vsub(point, interactRef.startPoint),
                                      cubelets[interactRef.intersectedCubieId]),
                          GestureDuration, rendered.gameState, 0)} : SetWorld(w)
            /\ gestures' = gestures + 1
       ELSE UNCHANGED <<interactRef, cubelets, meshes, pivot, anims, started,
                        completed, isAnimating,
                        gestures>>
    /\ UNCHANGED <<gameState, isScrambling, rendered, timers, solvedEvents, starts, alg, missed>>

(***************************************************************************)
(* Rendering, the scramble effect, and the handlers of App.                *)
(***************************************************************************)
\* The scramble effect (deps [scramble]) of a render with the props gs and scr,
\* the previous render having had prevScr: the worlds it can leave.
EffectWorlds(w, gs, scr, prevScr) ==
    IF scr # prevScr /\ scr /\ ~w.isAnimating
    THEN {rotateSlice(w, m, ScrambleDuration, gs, 1) : m \in ScrambleMoves}
    ELSE {w}

\* A render of App and Cube3D after a state change made outside a click
\* (an animation frame, a pointer event, the timer), with its effects.
Render ==
    /\ rendered # [gameState |-> gameState, scramble |-> isScrambling,
                   isAnimating |-> isAnimating]
    /\ rendered' = [gameState |-> gameState, scramble |-> isScrambling,
                    isAnimating |-> isAnimating]
    /\ \E w2 \in EffectWorlds(World, gameState, isScrambling, rendered.scramble) :
          SetWorld(w2)
    /\ UNCHANGED <<gameState, isScrambling, interactRef, timers, solvedEvents, gestures, starts, alg, missed>>

\* startSequence(), and the render that ends the click
startSequence ==
    /\ starts < MaxStarts
    /\ isScrambling' = TRUE
    /\ gameState' = "IDLE"
    /\ timers' = Append(timers, StartDelay)
    /\ starts' = starts + 1
    /\ rendered' = [gameState |-> "IDLE", scramble |-> TRUE, isAnimating |-> isAnimating]
    /\ \E w2 \in EffectWorlds(World, "IDLE", TRUE, rendered.scramble) : SetWorld(w2)

\* INITIATE SEQUENCE, shown while IDLE and not scrambling
handleStart(nicknameOk) ==
    /\ rendered.gameState = "IDLE" /\ ~rendered.scramble
    /\ IF nicknameOk
       THEN startSequence
       ELSE UNCHANGED <<cubelets, meshes, pivot, anims, started, completed,
                        isAnimating, isScrambling,
                        gameState, timers, starts, rendered>>
    /\ UNCHANGED <<interactRef, solvedEvents, gestures, alg, missed>>

\* RESET, shown while PLAYING
handleRetry ==
    /\ rendered.gameState = "PLAYING"
    /\ startSequence
    /\ UNCHANGED <<interactRef, solvedEvents, gestures, alg, missed>>

\* HOME, shown while PLAYING, and Reboot System, shown while SOLVED
handleReset ==
    /\ rendered.gameState \in {"PLAYING", "SOLVED"}
    /\ gameState' = "IDLE"
    /\ rendered' = [gameState |-> "IDLE", scramble |-> isScrambling,
                    isAnimating |-> isAnimating]
    /\ \E w2 \in EffectWorlds(World, "IDLE", isScrambling, rendered.scramble) :
          SetWorld(w2)
    /\ UNCHANGED <<isScrambling, interactRef, timers, solvedEvents,
                   gestures, starts, alg, missed>>

\* the callback of the setTimeout of startSequence
TimerFire ==
    /\ timers # <<>>
    /\ Head(timers) = 0
    /\ timers' = Tail(timers)
    /\ isScrambling' = FALSE
    /\ gameState' = "PLAYING"
    /\ UNCHANGED <<cubelets, meshes, pivot, anims, started, completed, isAnimating,
                   rendered, interactRef, solvedEvents, gestures, starts, alg, missed>>

\* 100 ms pass: nothing that is due is left waiting, and a render that is
\* pending is performed before the clock advances.
Tick ==
    /\ rendered = [gameState |-> gameState, scramble |-> isScrambling,
                   isAnimating |-> isAnimating]
    /\ anims # <<>> \/ timers # <<>>
    /\ \A k \in 1 .. Len(anims) : anims[k].remaining > 0
    /\ \A k \in 1 .. Len(timers) : timers[k] > 0
    /\ anims' = [k \in 1 .. Len(anims) |->
                   [anims[k] EXCEPT !.remaining = anims[k].remaining - 1]]
    /\ timers' = [k \in 1 .. Len(timers) |-> timers[k] - 1]
    /\ UNCHANGED <<cubelets, meshes, pivot, started, completed, gameState,
                   isScrambling, isAnimating, rendered, interactRef, solvedEvents,
                   gestures, starts, alg, missed>>

Next ==
    \/ \E k \in 1 .. Len(anims) : AnimateFrame(k)
    \/ \E k \in 1 .. Len(anims) : FinishFrame(k)
    \/ \E face \in BOOLEAN, h \in Hits : handlePointerDown(face, h) /\ UNCHANGED missed
    \/ handlePointerUp
    \/ \E point \in EventPoints : handlePointerMove(point)
    \/ Render
    \/ \E ok \in BOOLEAN : handleStart(ok)
    \/ handleRetry
    \/ handleReset
    \/ TimerFire
    \/ Tick

Spec == Init /\ [][Next]_vars

\* The program with the roundings of FinishFramePart; PartGestures bounds the
\* moves started by gestures.
NextPart ==
    \/ \E k \in 1 .. Len(anims) : AnimateFrame(k)
    \/ \E k \in 1 .. Len(anims) : FinishFramePart(k)
    \/ \E face \in BOOLEAN, h \in Hits : handlePointerDown(face, h) /\ UNCHANGED missed
    \/ handlePointerUp
    \/ \E point \in EventPoints : gestures < PartGestures /\ handlePointerMove(point)
    \/ Render
    \/ \E ok \in BOOLEAN : handleStart(ok)
    \/ handleRetry
    \/ handleReset
    \/ TimerFire
    \/ Tick

SpecPart == Init /\ [][NextPart]_vars

(***************************************************************************)
(* Committed moves one after the other: rotateSlice run to its last frame  *)
(* before the next call, as the scramble loop awaits it.                   *)
(***************************************************************************)
ApplyMove(w, m) ==
    finishMove(rotateSlice(w, m, ScrambleDuration, "IDLE", 0), Len(w.anims) + 1)

RECURSIVE RunMoves(_, _)
RunMoves(w, seq) ==
    IF seq = <<>> THEN w ELSE RunMoves(ApplyMove(w, Head(seq)), Tail(seq))

InitWorld == [cubelets |-> initialCubelets, meshes |-> initialMeshes,
              pivot |-> ZeroPivot, anims |-> <<>>, started |-> 0,
              completed |-> {}, isAnimating |-> FALSE]

Snapshot(w) == [cubelets |-> w.cubelets, meshes |-> w.meshes]

\* Move sequences the algebra starts from: none, and one that turns the centre
\* piece of the y = 1 face by a half turn and brings every piece home.
HalfTwist ==
    <<Move("y", 1, 1), Move("x", 1, 1), Move("x", -1, -1), Move("y", 1, 1),
      Move("y", 1, 1), Move("x", 1, -1), Move("x", -1, 1)>>
AlgStarts == {<<>>, HalfTwist \o HalfTwist}

AppIdle ==
    /\ gameState = "IDLE"
    /\ isScrambling = FALSE
    /\ rendered = [gameState |-> "IDLE", scramble |-> FALSE, isAnimating |-> FALSE]
    /\ interactRef = [startFaceNormal |-> <<0, 0, 0>>, startPoint |-> <<0, 0, 0>>,
                      intersectedCubieId |-> -1, isDragging |-> FALSE]
    /\ timers = <<>>
    /\ solvedEvents = 0
    /\ gestures = 0
    /\ starts = 0
    /\ missed = FALSE

AppUnchanged ==
    UNCHANGED <<gameState, isScrambling, rendered, interactRef, timers,
                solvedEvents, gestures, starts, missed>>

InitAlg ==
    /\ \E seq \in AlgStarts :
          \E w \in {RunMoves(InitWorld, seq)} :
          /\ cubelets = w.cubelets
          /\ meshes = w.meshes
          /\ pivot = w.pivot
          /\ anims = w.anims
          /\ started = w.started
          /\ completed = w.completed
          /\ isAnimating = w.isAnimating
          /\ alg = [mode |-> "alg", base |-> Snapshot(w), seq |-> <<>>, i |-> 0]
    /\ AppIdle

\* a move that prepares the state the laws are checked from
AlgSetup(m) ==
    /\ alg.seq = <<>>
    /\ alg.i < AlgDepth
    /\ \E w \in {ApplyMove(World, m)} :
          /\ SetWorld(w)
          /\ alg' = [alg EXCEPT !.base = Snapshot(w), !.i = alg.i + 1]
    /\ AppUnchanged

\* a move of the sequence under test: all its moves turn the same slice
AlgApply(m) ==
    /\ Len(alg.seq) < AlgSteps
    /\ \A k \in 1 .. Len(alg.seq) :
          m.axis = alg.seq[k].axis /\ m.slice = alg.seq[k].slice
    /\ \E w \in {ApplyMove(World, m)} : SetWorld(w)
    /\ alg' = [alg EXCEPT !.seq = Append(alg.seq, m)]
    /\ AppUnchanged

\* a second move that turns another slice than the first
AlgOther(m) ==
    /\ Len(alg.seq) = 1
    /\ m.axis # alg.seq[1].axis \/ m.slice # alg.seq[1].slice
    /\ \E w \in {ApplyMove(World, m)} : SetWorld(w)
    /\ alg' = [alg EXCEPT !.seq = Append(alg.seq, m)]
    /\ AppUnchanged

NextAlg ==
    \/ \E m \in AllMoves : AlgSetup(m)
    \/ \E m \in AllMoves : AlgApply(m)
    \/ \E m \in AllMoves : AlgOther(m)

SpecAlg == InitAlg /\ [][NextAlg]_vars

(***************************************************************************)
(* A scramble of ScrambleLen moves and its undoing: a pattern of           *)
(* UndoPattern moves, repeated, is applied to the fresh store, then the    *)
(* inverse of each move in reverse order.                                  *)
(***************************************************************************)
UndoMoves == {AxisMinor(k) : k \in 1 .. UndoChoices}
Patterns == [1 .. UndoPattern -> UndoMoves]
Repeat(pat) == [k \in 1 .. ScrambleLen |-> pat[((k - 1) % UndoPattern) + 1]]

InitUndo ==
    /\ cubelets = initialCubelets
    /\ meshes = initialMeshes
    /\ pivot = ZeroPivot
    /\ anims = <<>>
    /\ started = 0
    /\ completed = {}
    /\ isAnimating = FALSE
    /\ \E pat \in Patterns :
          alg = [mode |-> "undo", base |-> Snapshot(InitWorld), seq |-> Repeat(pat),
                 i |-> 0]
    /\ AppIdle

UndoForward ==
    /\ alg.i < ScrambleLen
    /\ \E w \in {ApplyMove(World, alg.seq[alg.i + 1])} : SetWorld(w)
    /\ alg' = [alg EXCEPT !.i = alg.i + 1]
    /\ AppUnchanged

UndoBackward ==
    /\ alg.i >= ScrambleLen
    /\ alg.i < 2 * ScrambleLen
    /\ \E w \in {ApplyMove(World, Inverse(alg.seq[2 * ScrambleLen - alg.i]))} :
          SetWorld(w)
    /\ alg' = [alg EXCEPT !.i = alg.i + 1]
    /\ AppUnchanged

NextUndo ==
    \/ UndoForward
    \/ UndoBackward

SpecUndo == InitUndo /\ [][NextUndo]_vars

(***************************************************************************)
(* The application with animation frames, renders and timers that keep     *)
(* being delivered.                                                        *)
(***************************************************************************)
\* the step of FinishFrame, told by what it does to `completed`
LastFrame ==
    \E k \in 1 .. Len(anims) :
       MayFinish(k) /\ completed' = completed \cup {anims[k].id}

FairSpec ==
    /\ Spec
    /\ WF_completed(LastFrame)
    /\ WF_vars(Render)
    /\ WF_vars(TimerFire)
    /\ WF_vars(Tick)

(***************************************************************************)
(* Properties.                                                             *)
(***************************************************************************)
InFlight(i) == \E k \in 1 .. Len(anims) : anims[k].id = i
AllHome == \A c \in Ids : cubelets[c] = InitialPos(c)
TurnOf(a, v) == RotQuarter(a.axis, targetRot(a.direction), v)
TurnOfQ(a, q) == <<TurnOf(a, q[1]), TurnOf(a, q[2]), TurnOf(a, q[3])>>

\* C1: in every reachable state the 27 currentPos values are pairwise distinct
\* and cover the lattice {-1,0,1}^3: each lattice point holds exactly one cubelet.
Bijection ==
    \A p \in Lattice : Cardinality({c \in Ids : cubelets[c] = p}) = 1

\* C2: in every reachable state at most one move is in flight.
MutualExclusion == Len(anims) <= 1

\* C3: while the busy flag is set, a step that is not the completion of a move
\* starts no move and leaves every cubelet's position and orientation alone.
SingleFlightRejection ==
    [][(isAnimating /\ completed' = completed)
          => (started' = started /\ cubelets' = cubelets /\ meshes' = meshes)]_vars

\* C4: a move followed by the move of the same axis and slice and the opposite
\* direction restores every position and orientation to the values before them.
InverseLaw ==
    (alg.mode = "alg" /\ Len(alg.seq) = 2 /\ alg.seq[2] = Inverse(alg.seq[1]))
        => Snapshot(World) = alg.base
InverseLawWitness ==
    /\ alg.mode = "alg" /\ Len(alg.seq) = 2 /\ alg.seq[2] = Inverse(alg.seq[1])
    /\ alg.i = AlgDepth
    /\ ~AllHome
    /\ Snapshot(World) = alg.base

\* C5: the same move four times in sequence restores every position and
\* orientation to the values before the sequence.
GroupClosure ==
    (alg.mode = "alg" /\ Len(alg.seq) = 4 /\ \A k \in 1 .. 4 : alg.seq[k] = alg.seq[1])
        => Snapshot(World) = alg.base
GroupClosureWitness ==
    /\ alg.mode = "alg" /\ Len(alg.seq) = 4 /\ \A k \in 1 .. 4 : alg.seq[k] = alg.seq[1]
    /\ alg.i = AlgDepth
    /\ ~AllHome
    /\ Snapshot(World) = alg.base

SolvedOnce ==
    [][(solvedEvents' # solvedEvents)
          => /\ ~solvedFlag(cubelets, meshes)
             /\ solvedFlag(cubelets', meshes')
             /\ solvedEvents' = solvedEvents + 1]_vars

\* C8: a step that completes no move leaves positions and orientations alone,
\* and the step that completes a move applies its quarter-turn to its slice
\* and leaves the other cubelets alone.
AtomicCommit ==
    [][IF completed' = completed
       THEN /\ cubelets' = cubelets
            /\ \A c \in Ids : /\ meshes'[c].position = meshes[c].position
                              /\ meshes'[c].quaternion = meshes[c].quaternion
       ELSE \E k \in 1 .. Len(anims) :
               /\ anims[k].id \in completed' \ completed
               /\ \A c \in Ids :
                     IF c \in anims[k].active
                     THEN /\ cubelets'[c] = TurnOf(anims[k], cubelets[c])
                          /\ meshes'[c].position = TurnOf(anims[k], meshes[c].position)
                          /\ meshes'[c].quaternion = TurnOfQ(anims[k], meshes[c].quaternion)
                     ELSE /\ cubelets'[c] = cubelets[c]
                          /\ meshes'[c].position = meshes[c].position
                          /\ meshes'[c].quaternion = meshes[c].quaternion]_vars

\* C9: with frames, renders and timers delivered, every move that was started
\* is in flight or completed (none is dropped), the moves in flight always run
\* out (each is eventually completed), and the busy flag is always cleared
\* again.
NoCancellation ==
    /\ [](\A i \in 1 .. started : InFlight(i) \/ i \in completed)
    /\ []<>(anims = <<>>)
    /\ []<>(~isAnimating)
\* a scramble and a gesture's move have all run to completion
NoCancellationWitness ==
    /\ alg.mode = "app"
    /\ anims = <<>>
    /\ gestures > 0
    /\ started > ScrambleLen
    /\ completed = 1 .. started
    /\ ~isAnimating

\* C10: ScrambleLen moves applied to the fresh store, then the inverse of each
\* in reverse order, leave a state in which the solved check is true.
RoundTrip ==
    (alg.mode = "undo" /\ alg.i = 2 * ScrambleLen) => solvedFlag(cubelets, meshes)
RoundTripWitness ==
    /\ alg.mode = "undo" /\ alg.i = 2 * ScrambleLen
    /\ alg.seq[1].axis # alg.seq[2].axis
    /\ solvedFlag(cubelets, meshes)

BaseWorld == [InitWorld EXCEPT !.cubelets = alg.base.cubelets,
                               !.meshes = alg.base.meshes]
SliceOf(cur, m) == activeCubies(cur, m.axis, m.slice)
DisjointPair ==
    /\ alg.mode = "alg" /\ Len(alg.seq) = 2
    /\ alg.seq[1].axis # alg.seq[2].axis \/ alg.seq[1].slice # alg.seq[2].slice
    /\ SliceOf(alg.base.cubelets, alg.seq[1]) \cap SliceOf(alg.base.cubelets, alg.seq[2]) = {}

\* C11: two moves on different (axis, slice) pairs whose slices share no
\* cubelet leave the same positions and orientations in either order.
Commutativity ==
    DisjointPair
        => Snapshot(World) = Snapshot(RunMoves(BaseWorld, <<alg.seq[2], alg.seq[1]>>))
CommutativityWitness ==
    /\ DisjointPair
    /\ alg.i = AlgDepth
    /\ ~AllHome
    /\ Snapshot(World) = Snapshot(RunMoves(BaseWorld, <<alg.seq[2], alg.seq[1]>>))

\* C12: on the freshly initialised store, with no move started, the solved
\* check is true.
SolvedBaseline ==
    started = 0 => solvedFlag(cubelets, meshes)
SolvedBaselineWitness ==
    /\ alg.mode = "app"
    /\ started = 0
    /\ cubelets = initialCubelets /\ meshes = initialMeshes
    /\ solvedFlag(cubelets, meshes)

UnitVectors == {v \in Lattice : LengthSq(v) = 1}
Cross(a, b) == <<a[2] * b[3] - a[3] * b[2], a[3] * b[1] - a[1] * b[3],
                 a[1] * b[2] - a[2] * b[1]>>
\* the 24 rotations of the cube, as the images of the three basis vectors
IsCubeRotation(q) ==
    /\ q[1] \in UnitVectors
    /\ q[2] \in UnitVectors
    /\ q[3] = Cross(q[1], q[2])

\* C13: in every reachable state every cubelet's orientation is exactly one of
\* the 24 rotations of the cube.
OrientationClosure ==
    \A c \in Ids : ~meshes[c].skew /\ IsCubeRotation(meshes[c].quaternion)

PressStep == \E h \in Hits : handlePointerDown(TRUE, h)

\* C14: a drag update resolves a move only while the gesture is armed, and
\* resolving disarms it; a release disarms it; only a press arms it.  So at
\* most one move is resolved between one press and the next, and none after
\* the latch or a release.
OneMovePerGesture ==
    [][/\ gestures' # gestures
            => (interactRef.isDragging /\ ~interactRef'.isDragging
                /\ gestures' = gestures + 1)
       /\ handlePointerUp => ~interactRef'.isDragging
       /\ (interactRef'.isDragging /\ ~interactRef.isDragging) => PressStep]_vars
\* a move was resolved by a drag and the gesture is latched while it runs
OneMovePerGestureWitness ==
    /\ gestures > 0
    /\ ~interactRef.isDragging
    /\ \E k \in 1 .. Len(anims) : anims[k].step = 0

Armed ==
    /\ interactRef.isDragging
    /\ ~rendered.isAnimating
    /\ interactRef.intersectedCubieId # -1

\* C15: a drag update of an armed gesture whose vector from the press point is
\* shorter than the threshold starts no move and changes nothing (the gesture
\* stays armed); one whose vector is at least the threshold resolves a move.
DeadZone ==
    [][\A point \in EventPoints :
          (Armed /\ handlePointerMove(point))
              => IF LengthSq(Vsub(point, interactRef.startPoint)) < ThresholdSq
                 THEN UNCHANGED <<interactRef, gestures, started, anims, cubelets,
                                  meshes, pivot, isAnimating>>
                 ELSE gestures' = gestures + 1 /\ started' = started + 1]_vars
\* an armed gesture, for which updates below and past the threshold can arrive
DeadZoneWitness ==
    /\ Armed
    /\ rendered.gameState = "PLAYING"
    /\ gestures < MaxGestures
    /\ \E p \in EventPoints : LengthSq(Vsub(p, interactRef.startPoint)) < ThresholdSq
    /\ \E p \in EventPoints : LengthSq(Vsub(p, interactRef.startPoint)) = ThresholdSq

(***************************************************************************)
(* Gestures on their own: the game is PLAYING with the store left by some  *)
(* committed moves; any outer face of a cubelet is pressed and dragged by  *)
(* any vector of DragVectors, and the resolved move runs to its end.       *)
(***************************************************************************)
GestureStarts ==
    {<<>>, <<Move("x", 1, 1)>>, <<Move("y", 0, 1), Move("z", -1, -1)>>,
     HalfTwist \o HalfTwist}

InitGesture ==
    /\ \E seq \in GestureStarts :
          \E w \in {RunMoves(InitWorld, seq)} :
          /\ cubelets = w.cubelets
          /\ meshes = w.meshes
          /\ pivot = w.pivot
          /\ anims = w.anims
          /\ started = w.started
          /\ completed = w.completed
          /\ isAnimating = w.isAnimating
    /\ gameState = "PLAYING"
    /\ isScrambling = FALSE
    /\ rendered = [gameState |-> "PLAYING", scramble |-> FALSE, isAnimating |-> FALSE]
    /\ interactRef = [startFaceNormal |-> <<0, 0, 0>>, startPoint |-> <<0, 0, 0>>,
                      intersectedCubieId |-> -1, isDragging |-> FALSE]
    /\ timers = <<>>
    /\ solvedEvents = 0
    /\ gestures = 0
    /\ starts = 1
    /\ alg = [mode |-> "gesture", base |-> <<>>, seq |-> <<>>, i |-> 0]
    /\ missed = FALSE

\* the six outward unit normals, and the faces of the cube: a lattice point
\* and a normal along which the point lies on the surface
Normals == {v \in Lattice : LengthSq(v) = 1}
Faces == {f \in Lattice \X Normals :
             f[1][1] * f[2][1] + f[1][2] * f[2][2] + f[1][3] * f[2][3] = 1}
CubeAt(p) == CHOOSE c \in Ids : cubelets[c] = p
\* the hit of a ray on the face f: the mesh there, a world normal that leans
\* off the axis as on the rounded rim of the box, and the point on the face
HitOn(f) ==
    [id |-> CubeAt(f[1]),
     normal |-> <<10 * f[2][1] + f[2][2], 10 * f[2][2] + f[2][3], 10 * f[2][3] + f[2][1]>>,
     point |-> <<8 * f[1][1] + 4 * f[2][1], 8 * f[1][2] + 4 * f[2][2],
                 8 * f[1][3] + 4 * f[2][3]>>]
DragComps == {-3, -1, 0, 1, 3}
DragVectors == {<<x, y, z>> : x \in DragComps, y \in DragComps, z \in DragComps}

GesturePress(face, f) ==
    /\ gestures < GestureRounds
    /\ handlePointerDown(face, HitOn(f))
    /\ missed' = ~face

GestureDrag(d) == handlePointerMove(Vadd(interactRef.startPoint, d))

NextGesture ==
    \/ \E face \in BOOLEAN, f \in Faces : GesturePress(face, f)
    \/ \E d \in DragVectors : GestureDrag(d)
    \/ handlePointerUp
    \/ \E k \in 1 .. Len(anims) : AnimateFrame(k)
    \/ \E k \in 1 .. Len(anims) : FinishFrame(k)
    \/ Render
    \/ Tick

SpecGesture == InitGesture /\ [][NextGesture]_vars

\* the drag vector of a drag update, and the move a step has just started
DragOf(point) == Vsub(point, interactRef.startPoint)
Resolves(point) ==
    gestures' = gestures + 1 /\ Triggers(point) /\ handlePointerMove(point)
NewMove == anims'[Len(anims')]
NormalAxis(n) == IF n[1] # 0 THEN 1 ELSE IF n[2] # 0 THEN 2 ELSE 3
AllPoints == {Vadd(interactRef.startPoint, d) : d \in DragVectors \cup Deltas}
\* the drag updates a step can come from: none unless it resolves a move
StepPoints == IF gestures' = gestures THEN {} ELSE AllPoints

\* C16: when a drag update resolves a move, the rotation axis is not the axis
\* of the snapped normal, and of the two tangential axes it is the one with
\* the smaller (or equal) absolute drag component: the drag axis is the other.
AxisResolution ==
    [][\A point \in StepPoints :
          Resolves(point)
              => LET na == NormalAxis(interactRef.startFaceNormal)
                     ra == AxisIndex(NewMove.axis)
                     d == DragOf(point)
                 IN  /\ ra # na
                     /\ \E da \in {1, 2, 3} \ {na, ra} : Abs(d[da]) >= Abs(d[ra])]_vars
\* a move resolved from a press on each kind of face is in flight
AxisResolutionWitness ==
    /\ alg.mode = "gesture"
    /\ gestures = 1
    /\ Len(anims) = 1
    /\ anims[1].axis = "y"
    /\ interactRef.startFaceNormal = <<0, 0, -1>>
    /\ ~AllHome

\* C17: the slice of a resolved move is the pressed cubelet's current
\* coordinate along the resolved axis, and the pressed cubelet is among the
\* cubelets the move turns.
SliceResolution ==
    [][\A point \in StepPoints :
          Resolves(point)
              => /\ NewMove.sliceIndex =
                       cubelets[interactRef.intersectedCubieId][AxisIndex(NewMove.axis)]
                 /\ interactRef.intersectedCubieId \in NewMove.active]_vars
\* a move resolved on a cubelet that earlier moves have taken from its home
SliceResolutionWitness ==
    /\ alg.mode = "gesture"
    /\ gestures = 1
    /\ Len(anims) = 1
    /\ interactRef.intersectedCubieId \in anims[1].active
    /\ cubelets[interactRef.intersectedCubieId]
          # InitialPos(interactRef.intersectedCubieId)
    /\ anims[1].sliceIndex # InitialPos(interactRef.intersectedCubieId)[AxisIndex(anims[1].axis)]

\* C18: pressing the +n face and the -n face with the same drag vector, whose
\* dominant tangential component is not zero, resolves the same rotation axis
\* and opposite directions.
Neg(v) == <<-v[1], -v[2], -v[3]>>
MirrorSymmetry ==
    [][\A point \in StepPoints :
          Resolves(point)
              => LET n == interactRef.startFaceNormal
                     d == DragOf(point)
                     mirrored == ResolveMove(Neg(n), d,
                                             cubelets[interactRef.intersectedCubieId])
                 IN  (\E t \in {1, 2, 3} \ {NormalAxis(n)} : d[t] # 0)
                         => /\ NewMove.axis = mirrored.axis
                            /\ NewMove.direction = -mirrored.direction]_vars
\* a move about z resolved on the -x face: its drag has a non-zero y component
MirrorSymmetryWitness ==
    /\ alg.mode = "gesture"
    /\ gestures = 1
    /\ Len(anims) = 1
    /\ interactRef.startFaceNormal = <<-1, 0, 0>>
    /\ anims[1].axis = "z"
    /\ anims[1].direction = 1

MissStep == \E f \in Faces : GesturePress(FALSE, f)
MissedPress ==
    [][/\ (missed' /\ MissStep)
            => interactRef'.intersectedCubieId = interactRef.intersectedCubieId
       /\ missed => gestures' = gestures]_vars

(***************************************************************************)
(* The scramble run and the start sequence.                                *)
(***************************************************************************)
\* the moves of the scramble loop among the moves in flight (step is i + 1)
ScrambleInFlight(as) == {k \in 1 .. Len(as) : as[k].step >= 1}
\* the moves in flight whose last frame runs in this step
Completing == {k \in 1 .. Len(anims) : anims[k].id \in completed' \ completed}
\* this step calls rotateSlice from the scramble loop or the scramble effect
IssuesScramble == started' > started /\ NewMove.step >= 1

\* C21: a scramble run issues its 20 moves one at a time: the first when the
\* effect runs, each next one in the step in which the previous scramble move
\* has completed and written its logical update, and none after the 20th.
SequentialScramble ==
    [][/\ IssuesScramble
            => /\ ScrambleInFlight(anims') = {Len(anims')}
               /\ NewMove.step \in 1 .. ScrambleLen
               /\ NewMove.step = 1 => ScrambleInFlight(anims) = {}
               /\ NewMove.step > 1
                     => \E k \in Completing :
                           /\ anims[k].step = NewMove.step - 1
                           /\ \A c \in anims[k].active :
                                 cubelets'[c] = meshes'[c].position
       /\ \A k \in Completing :
             /\ anims[k].step \in 1 .. (ScrambleLen - 1)
                   => IssuesScramble /\ NewMove.step = anims[k].step + 1
             /\ anims[k].step = ScrambleLen => started' = started]_vars
\* the 20th move of a run is in flight and the 19 before it have completed
SequentialScrambleWitness ==
    /\ alg.mode = "app"
    /\ \E k \in 1 .. Len(anims) :
          /\ anims[k].step = ScrambleLen
          /\ \A i \in 1 .. (ScrambleLen - 1) : (anims[k].id - i) \in completed

\* the render of this step is the one in which the scramble prop turns true
ScrambleRequested == ~rendered.scramble /\ rendered'.scramble

\* C22: a scramble requested while a move is in flight issues no scramble
\* move at all: none in the step of the request, and a first scramble move is
\* issued in no other step.
ScrambleGate ==
    [][/\ (ScrambleRequested /\ anims # <<>>) => ~IssuesScramble
       /\ (IssuesScramble /\ NewMove.step = 1) => ScrambleRequested]_vars

\* a full puzzle reset: HOME / Reboot System, or RESET
ResetStep == handleReset \/ handleRetry
\* the store as initialCubelets creates it
FreshStore(cur, ms) ==
    \A c \in Ids : /\ cur[c] = InitialPos(c)
                   /\ ms[c].position = InitialPos(c)
                   /\ ms[c].quaternion = Identity

\* C23: after a full puzzle reset (Reset/Home or Retry) every cubelet is at its
\* initial position with the identity orientation, before any new scramble
\* move is applied.
ResetRecreatesStore ==
    [][ResetStep => FreshStore(cubelets', meshes')]_vars

\* the move a step of the move algebra commits
AlgCommitted ==
    IF alg.mode = "alg" /\ Len(alg'.seq) > Len(alg.seq)
    THEN {alg'.seq[Len(alg'.seq)]}
    ELSE {}

\* C24: committing a move (axis, slice, direction) leaves the position and
\* orientation of every cubelet whose coordinate along axis differs from slice
\* unchanged, and leaves the coordinate along axis of every cubelet in the
\* slice unchanged.
FrameOfMove ==
    [][\A m \in AlgCommitted :
          LET ax == AxisIndex(m.axis) IN
          \A c \in Ids :
             IF cubelets[c][ax] # m.slice
             THEN /\ cubelets'[c] = cubelets[c]
                  /\ meshes'[c].position = meshes[c].position
                  /\ meshes'[c].quaternion = meshes[c].quaternion
             ELSE /\ cubelets'[c][ax] = cubelets[c][ax]
                  /\ meshes'[c].position[ax] = meshes[c].position[ax]]_vars
\* a second move committed on a store the first one changed: a cubelet the
\* first move took from its home lies outside the second move's slice
FrameOfMoveWitness ==
    /\ alg.mode = "alg"
    /\ Len(alg.seq) = 2
    /\ \E c \in Ids :
          /\ cubelets[c] # InitialPos(c)
          /\ cubelets[c][AxisIndex(alg.seq[2].axis)] # alg.seq[2].slice
    /\ \E c \in Ids :
          /\ cubelets[c][AxisIndex(alg.seq[2].axis)] = alg.seq[2].slice
          /\ cubelets[c] # alg.base.cubelets[c]

\* the quarter-turn by -90 degrees * direction about the positive axis
QuarterTurn(axis, direction, v) ==
    IF axis = "x" THEN <<v[1], direction * v[3], -direction * v[2]>>
    ELSE IF axis = "y" THEN <<-direction * v[3], v[2], direction * v[1]>>
    ELSE <<direction * v[2], -direction * v[1], v[3]>>

\* C25: a committed move with direction +1 maps the position (x,y,z) of every
\* cubelet of its slice to (x,z,-y) on axis x, (-z,y,x) on axis y and
\* (y,-x,z) on axis z (a turn by -90 degrees about the positive axis),
\* direction -1 does the opposite turn, and the same rotation is composed onto
\* the orientation.
SignConvention ==
    [][\A m \in AlgCommitted :
          \A c \in activeCubies(cubelets, m.axis, m.slice) :
             /\ cubelets'[c] = QuarterTurn(m.axis, m.direction, cubelets[c])
             /\ meshes'[c].position = QuarterTurn(m.axis, m.direction, cubelets[c])
             /\ \A i \in 1 .. 3 :
                   meshes'[c].quaternion[i] =
                      QuarterTurn(m.axis, m.direction, meshes[c].quaternion[i])]_vars
\* the move y / 1 / +1 has taken the corner (1,1,1) to (-1,1,1) and turned the
\* image of the x axis to the z axis
SignConventionWitness ==
    /\ alg.mode = "alg"
    /\ alg.seq = <<Move("y", 1, 1)>>
    /\ alg.base.cubelets[26] = <<1, 1, 1>>
    /\ cubelets[26] = <<-1, 1, 1>>
    /\ alg.base.meshes[26].quaternion = Identity
    /\ meshes[26].quaternion[1] = <<0, 0, 1>>

\* what the commit of a move does to a vector of its slice: the pivot holds
\* the target angle on the move's axis when the slice is detached
Carried(axis, direction, v) ==
    PivotApply(SetAxis(ZeroPivot, axis, targetRot(direction)), v)
UnitVector(i, sign) == [k \in 1 .. 3 |-> IF k = i THEN sign ELSE 0]

\* C26: for each pressed face and each drag past the threshold whose dominant
\* tangential component is not zero, the quarter-turn of the resolved move
\* carries the face's outward normal onto the signed direction of the drag
\* axis: the pressed sticker moves the way the pointer was dragged.
DragFollowsFinger ==
    [][\A point \in StepPoints :
          Resolves(point)
              => LET n == interactRef.startFaceNormal
                     d == DragOf(point)
                     ra == AxisIndex(NewMove.axis)
                 IN  \A da \in {1, 2, 3} \ {NormalAxis(n), ra} :
                        d[da] # 0
                            => Carried(NewMove.axis, NewMove.direction, n)
                                  = UnitVector(da, Sign(d[da]))]_vars
\* the top face dragged towards +z: a move about x with direction -1
DragFollowsFingerWitness ==
    /\ alg.mode = "gesture"
    /\ gestures = 1
    /\ Len(anims) = 1
    /\ interactRef.startFaceNormal = <<0, 1, 0>>
    /\ anims[1].axis = "x"
    /\ anims[1].direction = -1

\* handleSolve has run in this step: the game moves to SOLVED, a score is saved
EmitsSolved == solvedEvents' > solvedEvents \/ (gameState' = "SOLVED" /\ gameState # "SOLVED")

\* C27: the game moves to SOLVED and records a score only if the game state is
\* PLAYING at the moment the solving move completes; a move started in PLAYING
\* that completes after Reset or Retry changed the game state emits nothing.
SolvedOnlyWhilePlaying ==
    [][EmitsSolved => gameState = "PLAYING"]_vars

\* the timeout of startSequence runs in this step: the game becomes PLAYING
BecomesPlaying == gameState' = "PLAYING" /\ Len(timers') < Len(timers)

\* C28: at the moment the game state becomes PLAYING at the end of a start
\* sequence, no scramble move is in flight and none remains to be issued.
ScrambleBeforePlay ==
    [][BecomesPlaying => ScrambleInFlight(anims) = {}]_vars

\* C29: every start sequence (every time the scramble flag goes from false to
\* true) results in exactly 20 scramble moves being committed.  The first of
\* them can only be issued by the effect of the render that turns the flag
\* true, so the flag turning true without it leaves the session unscrambled.
EverySessionScrambled ==
    [][ScrambleRequested => (IssuesScramble /\ NewMove.step = 1)]_vars

\* C30: no scramble move emits Solved, even when it leaves the puzzle in the
\* solved configuration and even when it completes after the game state has
\* become PLAYING.
ScrambleNeverSolves ==
    [][(\E k \in Completing : anims[k].step >= 1) => ~EmitsSolved]_vars
\* the 20th scramble move has completed after the render of PLAYING (that
\* render still saw it animating) and left the cube solved; nothing was emitted
ScrambleNeverSolvesWitness ==
    /\ alg.mode = "app"
    /\ started = ScrambleLen
    /\ completed = 1 .. ScrambleLen
    /\ gameState = "PLAYING"
    /\ rendered.gameState = "PLAYING"
    /\ rendered.isAnimating
    /\ ~isAnimating
    /\ solvedFlag(cubelets, meshes)
    /\ solvedEvents = 0

\* this step starts a move from a drag
GestureStartsMove == gestures' > gestures

\* C31: a press and drag starts a move only while the game state is PLAYING;
\* in IDLE (also while scrambling) and in SOLVED no gesture commits a move, so
\* once the game is SOLVED the cubelets stay solved until a new start sequence.
GesturesOnlyWhilePlaying ==
    [][/\ GestureStartsMove => gameState = "PLAYING"
       /\ (gameState = "SOLVED" /\ gameState' = "SOLVED"
              /\ solvedFlag(cubelets, meshes))
             => solvedFlag(cubelets', meshes')]_vars

\* the number of zero coordinates: 0 corner, 1 edge, 2 face centre, 3 core
Zeros(v) == Cardinality({i \in 1 .. 3 : v[i] = 0})

\* C32: after any sequence of committed moves each cubelet's currentPosition
\* has as many zero coordinates as its initialPosition: corners stay corners,
\* edges edges, face centres face centres, and the core stays at (0,0,0).
PieceTypePreserved ==
    \A c \in Ids : Zeros(cubelets[c]) = Zeros(InitialPos(c))

====
